---- MODULE Spec2Model ----
(***************************************************************************)
(* Model of "BB1 racing.cpp": the vehicle physics stepper, the progression *)
(* tracker run after it in the fixed-step loop of main(), and the screen   *)
(* and input handling of main().                                           *)
(*                                                                         *)
(* Numbers.  The program computes in float; the model computes in fixed    *)
(* point with integers:                                                    *)
(*   lengths      1/1000 px        (x_px, y_px, wheelR, ...)               *)
(*   distances    1/1000 m         (fuel_m, levelDistance_m, ...)          *)
(*   velocities   1/1000 px/s      (vx, vy)                                *)
(*   angles       1/1000000 rad    (angle), 1/1000000 rad/s (angV)         *)
(*   trig values  1/1000           (Sin, Cos, slope)                       *)
(*   timer        ticks of DT_FIXED (fuel_out_timer; 5.0 s is 600, -1.0 s  *)
(*                is -120)                                                 *)
(* A product by dt = DT_FIXED = 1/120 is a division by DT_DEN.             *)
(***************************************************************************)
EXTENDS Integers, Sequences, FiniteSets, TLC

VARIABLES screen, hasFont, windowOpen, unlockedLevels, currentLevel,
          car, level, fuel_m, lastX_forFuel_px, coinsCollected,
          levelDistance_m, totalDistance_m, totalCoins, headHitGround,
          fuel_out_timer, attempts, tickNo, accumulator, clock, pc

vars == << screen, hasFont, windowOpen, unlockedLevels, currentLevel,
           car, level, fuel_m, lastX_forFuel_px, coinsCollected,
           levelDistance_m, totalDistance_m, totalCoins, headHitGround,
           fuel_out_timer, attempts, tickNo, accumulator, clock, pc >>

\* main()'s locals: the accumulator and the clock (in TU-ths of DT_FIXED), and
\* the place in the body of its loop: polling events, or in the fixed-step
\* update
frame == << accumulator, clock, pc >>

\* ------------------------------ Config ----------------------------------
WINDOW_H == 720
PPM == 8
GRAVITY == 40
DT_DEN == 120
LEVEL_METERS == << 300, 500, 700, 900, 1100 >>
FUEL_TANK_METERS == 100
FUEL_CAN_GAP_M == 80
COINS_PER_LEVEL == 20
NUM_LEVELS == 5

\* fixed-point resolutions
PX == 1000

\* ------------------------------ Helpers ---------------------------------
Abs(v) == IF v < 0 THEN -v ELSE v
Min2(a, b) == IF a < b THEN a ELSE b
Max2(a, b) == IF a > b THEN a ELSE b

\* integer quotient rounded toward zero (a fixed-point product or quotient)
Quot(a, b) == IF a >= 0 THEN a \div b ELSE -((-a) \div b)

clampf(v, lo, hi) == Max2(lo, Min2(v, hi))

\* std::sin on milliradians, result in 1/1000 (Bhaskara's rational form on
\* one half period, pi = 3142 mrad)
SinHalf(a) == LET p == a * (3142 - a)
              IN  (160 * p) \div ((49360820 - 4 * p) \div 100)
Sin(a) == LET r == a % 6284
          IN  IF r <= 3142 THEN SinHalf(r) ELSE -SinHalf(r - 3142)
Cos(a) == Sin(a + 1571)

\* std::atan of a slope in 1/1000, result in 1/1000000 rad
Atan(s) == IF Abs(s) <= 1000
           THEN 1000 * Quot(s * 1000000, 1000000 + (28 * s * s) \div 100)
           ELSE IF s > 0
                THEN 1000 * (1571 - Quot(s * 1000000, s * s + 280000))
                ELSE 1000 * (-1571 - Quot(s * 1000000, s * s + 280000))

\* Convert meters to pixels and vice versa
m2px(m) == m * PPM
px2m(px) == Quot(px, PPM)

\* ------------------------------ Terrain ---------------------------------
groundHeight(x_px, levelIndex) ==
    LET base  == WINDOW_H * 800
        rough == 15000 + levelIndex * 10000
        a1    == Quot(x_px, 140) + Quot(x_px * levelIndex * 8, 10000)
        a2    == Quot(x_px, 280) + Quot(x_px * levelIndex * 5, 10000)
    IN  base - Quot(rough * Sin(a1), 1000)
             - Quot(6 * rough * Sin(a2 + 1700), 10000)
             - Quot(3 * rough * Sin(Quot(a1 * 23, 10) + 600), 10000)

sampleGround(x_px, levelIndex) ==
    LET dx == 1 * PX
        y  == groundHeight(x_px, levelIndex)
        y2 == groundHeight(x_px + dx, levelIndex)
    IN  [ y |-> y, slope |-> Quot((y2 - y) * 1000, dx) ]

\* ------------------------------ Vehicle ---------------------------------
bodyW == 90 * PX
bodyH == 28 * PX
wheelBase == 70 * PX
wheelR == 18 * PX

localToWorldTemp(tempX, tempY, tempAngle, lx, ly) ==
    LET c == Cos(Quot(tempAngle, 1000))
        s == Sin(Quot(tempAngle, 1000))
    IN  [ x |-> tempX + Quot(c * lx, 1000) - Quot(s * ly, 1000),
          y |-> tempY + Quot(s * lx, 1000) + Quot(c * ly, 1000) ]

localToWorld(V, lx, ly) == localToWorldTemp(V.x_px, V.y_px, V.angle, lx, ly)

frontWheelPos(V) == localToWorld(V, wheelBase \div 2, bodyH \div 2)
rearWheelPos(V) == localToWorld(V, -(wheelBase \div 2), bodyH \div 2)
headPos(V) == localToWorld(V, 0, -((bodyH * 9) \div 10))

VehicleReset(V, startX, groundY) ==
    [ V EXCEPT !.x_px = startX,
               !.y_px = groundY - wheelR - bodyH \div 2 - 2 * PX,
               !.vx = 0, !.vy = 0, !.angle = 20000, !.angV = 0 ]

\* ------------------------------ Game state ------------------------------
Screens == { "Menu", "Playing", "GameOver", "LevelComplete", "Exit", "GameCompleted" }

\* The Game object as one value: the operations below take and return it.
\* attempts is not a member of Game: it counts the buildLevel calls since the
\* last resetGame, to bound a run.
Game == [ screen |-> screen, unlockedLevels |-> unlockedLevels,
          currentLevel |-> currentLevel, car |-> car, level |-> level,
          fuel_m |-> fuel_m, lastX_forFuel_px |-> lastX_forFuel_px,
          coinsCollected |-> coinsCollected, levelDistance_m |-> levelDistance_m,
          totalDistance_m |-> totalDistance_m, totalCoins |-> totalCoins,
          headHitGround |-> headHitGround, fuel_out_timer |-> fuel_out_timer,
          attempts |-> attempts ]

\* Game after an operation: every field is written back to its variable.
Becomes(G) ==
    /\ screen' = G.screen
    /\ unlockedLevels' = G.unlockedLevels
    /\ currentLevel' = G.currentLevel
    /\ car' = G.car
    /\ level' = G.level
    /\ fuel_m' = G.fuel_m
    /\ lastX_forFuel_px' = G.lastX_forFuel_px
    /\ coinsCollected' = G.coinsCollected
    /\ levelDistance_m' = G.levelDistance_m
    /\ totalDistance_m' = G.totalDistance_m
    /\ totalCoins' = G.totalCoins
    /\ headHitGround' = G.headHitGround
    /\ fuel_out_timer' = G.fuel_out_timer
    /\ attempts' = G.attempts

\* the cans laid out two gaps apart
RECURSIVE BuildCansTwiceApart(_, _, _)
BuildCansTwiceApart(x, gap_px, finishX_px) ==
    IF x < finishX_px
    THEN << [ x_px |-> x, taken |-> FALSE ] >>
            \o BuildCansTwiceApart(x + 2 * gap_px, gap_px, finishX_px)
    ELSE << >>

RECURSIVE BuildCans(_, _, _)
BuildCans(x, gap_px, finishX_px) ==
    IF x < finishX_px
    THEN << [ x_px |-> x, taken |-> FALSE ] >> \o BuildCans(x + gap_px, gap_px, finishX_px)
    ELSE << >>

BuildCoins(length_px, idx) ==
    [ i \in 1..COINS_PER_LEVEL |->
        LET x == Quot(i * length_px, COINS_PER_LEVEL + 1)
        IN  [ x_px |-> x, y_px |-> sampleGround(x, idx).y - 50 * PX, taken |-> FALSE ] ]

\* buildLevel without the reset of headHitGround
buildLevelKeepingHeadHit(G, idx) ==
    LET length_m  == LEVEL_METERS[idx + 1] * 1000
        length_px == m2px(length_m)
        g0        == sampleGround(0, idx)
        placed    == VehicleReset(G.car, 10 * PX, g0.y)
    IN  [ G EXCEPT
            !.currentLevel = idx,
            !.level = [ index |-> idx, length_m |-> length_m,
                        length_px |-> length_px, finishX_px |-> length_px,
                        cans |-> BuildCans(m2px(20 * 1000), m2px(FUEL_CAN_GAP_M * 1000), length_px),
                        coins |-> BuildCoins(length_px, idx) ],
            !.fuel_m = FUEL_TANK_METERS * 1000,
            !.lastX_forFuel_px = 0,
            !.levelDistance_m = 0,
            !.coinsCollected = 0,
            !.fuel_out_timer = -DT_DEN,
            !.attempts = G.attempts + 1,
            !.car = [ placed EXCEPT !.vx = 0, !.vy = 0,
                                    !.pressingLeft = FALSE, !.pressingRight = FALSE ] ]

buildLevel(G, idx) ==
    LET length_m  == LEVEL_METERS[idx + 1] * 1000
        length_px == m2px(length_m)
        g0        == sampleGround(0, idx)
        placed    == VehicleReset(G.car, 10 * PX, g0.y)
    IN  [ G EXCEPT
            !.currentLevel = idx,
            !.level = [ index |-> idx, length_m |-> length_m,
                        length_px |-> length_px, finishX_px |-> length_px,
                        cans |-> BuildCans(m2px(20 * 1000), m2px(FUEL_CAN_GAP_M * 1000), length_px),
                        coins |-> BuildCoins(length_px, idx) ],
            !.fuel_m = FUEL_TANK_METERS * 1000,
            !.lastX_forFuel_px = 0,
            !.levelDistance_m = 0,
            !.coinsCollected = 0,
            !.headHitGround = FALSE,
            !.fuel_out_timer = -DT_DEN,
            !.attempts = G.attempts + 1,
            !.car = [ placed EXCEPT !.vx = 0, !.vy = 0,
                                    !.pressingLeft = FALSE, !.pressingRight = FALSE ] ]

\* resetGame that keeps the levels unlocked
resetGameKeepingUnlocked(G) ==
    buildLevel([ G EXCEPT !.currentLevel = 0,
                          !.totalDistance_m = 0, !.totalCoins = 0,
                          !.coinsCollected = 0, !.fuel_m = FUEL_TANK_METERS * 1000,
                          !.lastX_forFuel_px = 0, !.levelDistance_m = 0,
                          !.headHitGround = FALSE, !.fuel_out_timer = -DT_DEN,
                          !.attempts = 0,
                          !.car = [ G.car EXCEPT !.pressingLeft = FALSE,
                                                 !.pressingRight = FALSE ] ], 0)

resetGame(G) ==
    buildLevel([ G EXCEPT !.unlockedLevels = 1, !.currentLevel = 0,
                          !.totalDistance_m = 0, !.totalCoins = 0,
                          !.coinsCollected = 0, !.fuel_m = FUEL_TANK_METERS * 1000,
                          !.lastX_forFuel_px = 0, !.levelDistance_m = 0,
                          !.headHitGround = FALSE, !.fuel_out_timer = -DT_DEN,
                          !.attempts = 0,
                          !.car = [ G.car EXCEPT !.pressingLeft = FALSE,
                                                 !.pressingRight = FALSE ] ], 0)

\* ------------------------------ Physics ---------------------------------
\* checkContact (lambda of stepVehicle): the wheel at wp is below the line
\* ground - wheelR
checkContact(wp, levelIndex) ==
    LET gs      == sampleGround(wp.x, levelIndex)
        groundY == gs.y - wheelR
        dy      == wp.y - groundY
    IN  dy > 0

\* the first wrapping loop left out
NoWrapDown(da) == da

\* the wrapping loops of fixWheel
RECURSIVE WrapDown(_)
WrapDown(da) == IF da > 3141590 THEN WrapDown(da - 6283180) ELSE da
RECURSIVE WrapUp(_)
WrapUp(da) == IF da < -3141590 THEN WrapUp(da + 6283180) ELSE da

\* fixWheel pushing the wheel out along the ground's normal: the chassis is
\* moved sideways by dy * slope as well as up by dy
fixWheelAlongNormal(S, wp, levelIndex, dtDen) ==
    LET V       == S.V
        gs      == sampleGround(wp.x, levelIndex)
        groundY == gs.y - wheelR
        dy      == wp.y - groundY
    IN  IF dy > 0
        THEN LET targetAngle == Atan(gs.slope)
                 alignRate   == Quot(4500000, dtDen)
                 da          == WrapUp(WrapDown(targetAngle - V.angle))
             IN  [ V |-> [ V EXCEPT !.x_px = V.x_px + Quot(dy * gs.slope, 1000),
                                    !.y_px = V.y_px - dy,
                                    !.vy = Min2(0, V.vy),
                                    !.angle = V.angle + clampf(da, -alignRate, alignRate) ],
                   wheelsOnGround |-> S.wheelsOnGround + 1 ]
        ELSE S

\* fixWheel (lambda of stepVehicle) on the state S = [V, wheelsOnGround]
fixWheel(S, wp, levelIndex, dtDen) ==
    LET V       == S.V
        gs      == sampleGround(wp.x, levelIndex)
        groundY == gs.y - wheelR
        dy      == wp.y - groundY
    IN  IF dy > 0
        THEN LET targetAngle == Atan(gs.slope)
                 alignRate   == Quot(4500000, dtDen)
                 da          == WrapUp(WrapDown(targetAngle - V.angle))
             IN  [ V |-> [ V EXCEPT !.y_px = V.y_px - dy,
                                    !.vy = Min2(0, V.vy),
                                    !.angle = V.angle + clampf(da, -alignRate, alignRate) ],
                   wheelsOnGround |-> S.wheelsOnGround + 1 ]
        ELSE S

\* gravity (line 270)
gravity(V, dtDen) == [ V EXCEPT !.vy = V.vy + Quot(GRAVITY * PX, dtDen) ]

\* tentative pose (lines 273-275)
tempPose(V, dtDen) ==
    [ x |-> V.x_px + Quot(V.vx, dtDen),
      y |-> V.y_px + Quot(V.vy, dtDen),
      angle |-> V.angle + Quot(V.angV, dtDen) ]

\* lines 278-292: a wheel of the tentative pose T touches the ground
onGroundTentative(T, levelIndex) ==
    \/ checkContact(localToWorldTemp(T.x, T.y, T.angle, wheelBase \div 2, bodyH \div 2), levelIndex)
    \/ checkContact(localToWorldTemp(T.x, T.y, T.angle, -(wheelBase \div 2), bodyH \div 2), levelIndex)

\* one pressed key with the translation applied in the air as well
pushAlsoInAir(V, sgn, onGround, ax, ay, torqueDt) ==
    [ V EXCEPT !.vx = V.vx + sgn * ax,
               !.vy = V.vy + sgn * ay,
               !.angV = V.angV - sgn * torqueDt ]

\* lines 303-309 and 310-316: one pressed key; sgn is 1 for Right, -1 for Left
push(V, sgn, onGround, ax, ay, torqueDt) ==
    [ V EXCEPT !.vx = IF onGround THEN V.vx + sgn * ax ELSE V.vx,
               !.vy = IF onGround THEN V.vy + sgn * ay ELSE V.vy,
               !.angV = V.angV - sgn * torqueDt ]

pushRight(V, onGround, ax, ay, torqueDt) ==
    IF V.pressingRight THEN push(V, 1, onGround, ax, ay, torqueDt) ELSE V

pushLeft(V, onGround, ax, ay, torqueDt) ==
    IF V.pressingLeft THEN push(V, -1, onGround, ax, ay, torqueDt) ELSE V

\* the input forces without the test of the fuel
thrustAlways(V, fuel, onGround, tempAngle, dtDen) ==
    pushLeft(pushRight(V, onGround,
                       Quot(Quot(300 * PX, dtDen) * Cos(Quot(tempAngle, 1000)), 1000),
                       Quot(Quot(300 * PX, dtDen) * Sin(Quot(tempAngle, 1000)), 1000),
                       Quot(1800000, dtDen)),
             onGround,
             Quot(Quot(300 * PX, dtDen) * Cos(Quot(tempAngle, 1000)), 1000),
             Quot(Quot(300 * PX, dtDen) * Sin(Quot(tempAngle, 1000)), 1000),
             Quot(1800000, dtDen))

\* input forces of stepVehicle (lines 294-317, applied only if fuel > 0)
thrust(V, fuel, onGround, tempAngle, dtDen) ==
    IF fuel > 0
    THEN pushLeft(pushRight(V, onGround,
                            Quot(Quot(300 * PX, dtDen) * Cos(Quot(tempAngle, 1000)), 1000),
                            Quot(Quot(300 * PX, dtDen) * Sin(Quot(tempAngle, 1000)), 1000),
                            Quot(1800000, dtDen)),
                  onGround,
                  Quot(Quot(300 * PX, dtDen) * Cos(Quot(tempAngle, 1000)), 1000),
                  Quot(Quot(300 * PX, dtDen) * Sin(Quot(tempAngle, 1000)), 1000),
                  Quot(1800000, dtDen))
    ELSE V

forces(V, fuel, levelIndex, dtDen) ==
    thrust(V, fuel, onGroundTentative(tempPose(V, dtDen), levelIndex),
           tempPose(V, dtDen).angle, dtDen)

\* integrate (lines 320-322)
integrate(V, dtDen) ==
    [ V EXCEPT !.x_px = V.x_px + Quot(V.vx, dtDen),
               !.y_px = V.y_px + Quot(V.vy, dtDen),
               !.angle = V.angle + Quot(V.angV, dtDen) ]

\* lines 346-347: front wheel, then rear wheel of the corrected pose
fixFront(V, levelIndex, dtDen) ==
    fixWheel([ V |-> V, wheelsOnGround |-> 0 ], frontWheelPos(V), levelIndex, dtDen)

fixRear(S, levelIndex, dtDen) == fixWheel(S, rearWheelPos(S.V), levelIndex, dtDen)

\* friction if on ground (lines 349-353)
friction(S, fuel) ==
    IF S.wheelsOnGround > 0
    THEN [ S.V EXCEPT !.vx = IF fuel > 0 THEN S.V.vx - Quot(S.V.vx, 1000)
                                         ELSE S.V.vx - Quot(S.V.vx, 100),
                      !.angV = S.V.angV - Quot(S.V.angV * 2, 25) ]
    ELSE S.V

\* mild drag (lines 356-357)
drag(V) == [ V EXCEPT !.vx = V.vx - Quot(V.vx, 5000),
                      !.angV = V.angV - Quot(V.angV, 1000) ]

\* the stepper with the input forces applied after the integration
stepCarThrustAfterIntegration(V, fuel, levelIndex, dtDen) ==
    drag(friction(fixRear(fixFront(forces(integrate(gravity(V, dtDen), dtDen),
                                          fuel, levelIndex, dtDen),
                                   levelIndex, dtDen),
                          levelIndex, dtDen),
                  fuel))

stepCar(V, fuel, levelIndex, dtDen) ==
    drag(friction(fixRear(fixFront(integrate(forces(gravity(V, dtDen), fuel, levelIndex, dtDen),
                                             dtDen),
                                   levelIndex, dtDen),
                          levelIndex, dtDen),
                  fuel))

stepVehicle(G, dtDen) == [ G EXCEPT !.car = stepCar(G.car, G.fuel_m, G.currentLevel, dtDen) ]

\* ------------------------------ Tracker ---------------------------------
\* std::sqrt(dx*dx + dy*dy) < r, decided on the squares
Within(dx, dy, r) ==
    /\ Abs(dx) < r
    /\ Abs(dy) < r
    /\ dx * dx + dy * dy < r * r

\* min over chassis centre and both wheels of the distance to (px, py) is < r
NearAnchors(V, fw, rw, px, py, r) ==
    \/ Within(px - V.x_px, py - V.y_px, r)
    \/ Within(px - fw.x, py - fw.y, r)
    \/ Within(px - rw.x, py - rw.y, r)

\* consumeFuel on the signed difference (std::fabs left out)
consumeFuelSigned(G) ==
    LET dx_px == G.car.x_px - G.lastX_forFuel_px
    IN  IF dx_px # 0
        THEN LET consumed_m == px2m(dx_px)
             IN  [ G EXCEPT !.fuel_m = Max2(0, G.fuel_m - consumed_m),
                            !.levelDistance_m = G.levelDistance_m + consumed_m,
                            !.lastX_forFuel_px = G.car.x_px ]
        ELSE G

\* consumeFuel without the floor at zero (std::max left out)
consumeFuelNoFloor(G) ==
    LET dx_px == Abs(G.car.x_px - G.lastX_forFuel_px)
    IN  IF dx_px > 0
        THEN LET consumed_m == px2m(dx_px)
             IN  [ G EXCEPT !.fuel_m = G.fuel_m - consumed_m,
                            !.levelDistance_m = G.levelDistance_m + consumed_m,
                            !.lastX_forFuel_px = G.car.x_px ]
        ELSE G

\* consumeFuel with the level distance read off the car's position instead
\* of summed from the amounts consumed
consumeFuelByPosition(G) ==
    LET dx_px == Abs(G.car.x_px - G.lastX_forFuel_px)
    IN  IF dx_px > 0
        THEN LET consumed_m == px2m(dx_px)
             IN  [ G EXCEPT !.fuel_m = Max2(0, G.fuel_m - consumed_m),
                            !.levelDistance_m = px2m(G.car.x_px),
                            !.lastX_forFuel_px = G.car.x_px ]
        ELSE G

\* lines 362-368: fuel by horizontal distance travelled
consumeFuel(G) ==
    LET dx_px == Abs(G.car.x_px - G.lastX_forFuel_px)
    IN  IF dx_px > 0
        THEN LET consumed_m == px2m(dx_px)
             IN  [ G EXCEPT !.fuel_m = Max2(0, G.fuel_m - consumed_m),
                            !.levelDistance_m = G.levelDistance_m + consumed_m,
                            !.lastX_forFuel_px = G.car.x_px ]
        ELSE G

\* canHit without the test of the taken flag
canHitTakenToo(c, V, fw, rw, levelIndex) ==
    NearAnchors(V, fw, rw, c.x_px, sampleGround(c.x_px, levelIndex).y - 18 * PX, 30 * PX)

\* lines 373-393: the can c is picked up by the vehicle V on this tick
canHit(c, V, fw, rw, levelIndex) ==
    /\ ~c.taken
    /\ NearAnchors(V, fw, rw, c.x_px, sampleGround(c.x_px, levelIndex).y - 18 * PX, 30 * PX)

pickCans(G) ==
    LET fw   == frontWheelPos(G.car)
        rw   == rearWheelPos(G.car)
        hits == { i \in DOMAIN G.level.cans :
                    canHit(G.level.cans[i], G.car, fw, rw, G.currentLevel) }
    IN  IF hits = {} THEN G
        ELSE [ G EXCEPT !.level.cans = [ i \in DOMAIN G.level.cans |->
                                           IF i \in hits
                                           THEN [ G.level.cans[i] EXCEPT !.taken = TRUE ]
                                           ELSE G.level.cans[i] ],
                        !.fuel_m = FUEL_TANK_METERS * 1000 ]

\* coinHit without the test of the taken flag
coinHitTakenToo(coin, V, fw, rw) == NearAnchors(V, fw, rw, coin.x_px, coin.y_px, 28 * PX)

\* lines 395-413
coinHit(coin, V, fw, rw) ==
    /\ ~coin.taken
    /\ NearAnchors(V, fw, rw, coin.x_px, coin.y_px, 28 * PX)

pickCoins(G) ==
    LET fw   == frontWheelPos(G.car)
        rw   == rearWheelPos(G.car)
        hits == { i \in DOMAIN G.level.coins : coinHit(G.level.coins[i], G.car, fw, rw) }
    IN  IF hits = {} THEN G
        ELSE [ G EXCEPT !.level.coins = [ i \in DOMAIN G.level.coins |->
                                            IF i \in hits
                                            THEN [ G.level.coins[i] EXCEPT !.taken = TRUE ]
                                            ELSE G.level.coins[i] ],
                        !.coinsCollected = G.coinsCollected + Cardinality(hits) ]

updateFuelAndPickups(G) == pickCoins(pickCans(consumeFuel(G)))

checkHeadHit(G) ==
    LET hp == headPos(G.car)
        gs == sampleGround(hp.x, G.currentLevel)
    IN  hp.y >= gs.y - 3 * PX

\* ------------------------------ Fixed step ------------------------------
\* lines 984-987
headCheck(G) == IF checkHeadHit(G) THEN [ G EXCEPT !.headHitGround = TRUE ] ELSE G

\* fuelCheck that sets the countdown to 5.0 s on every tick without fuel
fuelCheckRestarting(G) ==
    IF G.fuel_m <= 0
    THEN [ G EXCEPT !.fuel_out_timer = 5 * DT_DEN ]
    ELSE [ G EXCEPT !.fuel_out_timer = -DT_DEN ]

\* fuelCheck that lets a countdown once started run on when there is fuel
fuelCheckNoCancel(G) ==
    IF G.fuel_m <= 0
    THEN IF G.fuel_out_timer < 0
         THEN [ G EXCEPT !.fuel_out_timer = 5 * DT_DEN ]
         ELSE [ G EXCEPT !.fuel_out_timer = G.fuel_out_timer - 1 ]
    ELSE IF G.fuel_out_timer < 0
         THEN [ G EXCEPT !.fuel_out_timer = -DT_DEN ]
         ELSE [ G EXCEPT !.fuel_out_timer = G.fuel_out_timer - 1 ]

\* lines 989-1000 (5.0 s is 5 * DT_DEN ticks, -1.0 s is -DT_DEN ticks)
fuelCheck(G) ==
    IF G.fuel_m <= 0
    THEN IF G.fuel_out_timer < 0
         THEN [ G EXCEPT !.fuel_out_timer = 5 * DT_DEN ]
         ELSE [ G EXCEPT !.fuel_out_timer = G.fuel_out_timer - 1 ]
    ELSE [ G EXCEPT !.fuel_out_timer = -DT_DEN ]

\* lines 1002-1017
finishLine(G) ==
    IF G.car.x_px >= G.level.finishX_px
    THEN LET next == G.currentLevel + 1
             T    == [ G EXCEPT !.totalDistance_m = G.totalDistance_m + G.levelDistance_m,
                                !.totalCoins = G.totalCoins + G.coinsCollected ]
         IN  IF next < NUM_LEVELS
             THEN [ T EXCEPT !.unlockedLevels = Max2(G.unlockedLevels, next + 1),
                             !.screen = "LevelComplete" ]
             ELSE [ T EXCEPT !.screen = "GameCompleted" ]
    ELSE G

\* gameOver on the fuel timeout only (the crash left out)
gameOverOnTimeoutOnly(G) ==
    IF G.fuel_out_timer <= 0 /\ G.fuel_out_timer > -DT_DEN
    THEN [ G EXCEPT !.totalDistance_m = G.totalDistance_m + G.levelDistance_m,
                    !.totalCoins = G.totalCoins + G.coinsCollected,
                    !.screen = "GameOver" ]
    ELSE G

\* lines 1019-1024
gameOver(G) ==
    IF (G.fuel_out_timer <= 0 /\ G.fuel_out_timer > -DT_DEN) \/ G.headHitGround
    THEN [ G EXCEPT !.totalDistance_m = G.totalDistance_m + G.levelDistance_m,
                    !.totalCoins = G.totalCoins + G.coinsCollected,
                    !.screen = "GameOver" ]
    ELSE G

\* lines 982-1024: what one pass of the fixed-step loop does after stepVehicle
afterStep(G) == gameOver(finishLine(fuelCheck(headCheck(updateFuelAndPickups(G)))))

\* one pass of the fixed-step loop (lines 981-1026)
fixedStep(G) == afterStep(stepVehicle(G, DT_DEN))

\* ------------------------------ Construction ----------------------------
\* Vehicle and Game as their member initialisers leave them (lines 83-97,
\* 136-157), before main() calls buildLevel(0)
Vehicle0 == [ x_px |-> 50 * PX, y_px |-> 400 * PX, vx |-> 0, vy |-> 0,
              angle |-> 0, angV |-> 0,
              pressingLeft |-> FALSE, pressingRight |-> FALSE ]

Level0 == [ index |-> 0, length_m |-> 100 * 1000, length_px |-> 800 * PX,
            finishX_px |-> 800 * PX, cans |-> << >>, coins |-> << >> ]

Game0 == [ screen |-> "Menu", unlockedLevels |-> 1, currentLevel |-> 0,
           car |-> Vehicle0, level |-> Level0,
           fuel_m |-> FUEL_TANK_METERS * 1000, lastX_forFuel_px |-> 0,
           coinsCollected |-> 0, levelDistance_m |-> 0,
           totalDistance_m |-> 0, totalCoins |-> 0,
           headHitGround |-> FALSE, fuel_out_timer |-> -DT_DEN, attempts |-> 0 ]

\* main() up to the first iteration of its loop (lines 784-794); setupFont
\* finds the font file or not
Init ==
    /\ hasFont \in BOOLEAN
    /\ windowOpen = TRUE
    /\ tickNo = 0
    /\ accumulator = 0
    /\ clock = 0
    /\ pc = "events"
    /\ LET G == buildLevel(Game0, 0)
       IN  /\ screen = G.screen
           /\ unlockedLevels = G.unlockedLevels
           /\ currentLevel = G.currentLevel
           /\ car = G.car
           /\ level = G.level
           /\ fuel_m = G.fuel_m
           /\ lastX_forFuel_px = G.lastX_forFuel_px
           /\ coinsCollected = G.coinsCollected
           /\ levelDistance_m = G.levelDistance_m
           /\ totalDistance_m = G.totalDistance_m
           /\ totalCoins = G.totalCoins
           /\ headHitGround = G.headHitGround
           /\ fuel_out_timer = G.fuel_out_timer
           /\ attempts = G.attempts

\* ------------------------------ Bounds ----------------------------------
\* Spec: a run builds at most SpareAttempts levels more than it has unlocked
SpareAttempts == 1
MaxBackHops == 1
RichZonePx == 800
OvershootPx == 40
\* Spec: while the fuel-out countdown runs, events arrive and the car moves or
\* crashes only at every CountdownPeriod-th tick of it
CountdownPeriod == 300
\* SpecPhys: ticks per attempt, and the ticks at which keys change
MaxPhysTicks == 1500
InputPeriod == 500
\* SpecStep: ticks applied to each vehicle state drawn
StepTicks == 2

\* ------------------------------ Stepper outcomes ------------------------
\* In Spec the float trajectory of stepVehicle is not followed tick by tick:
\* its result is drawn from a bounded set of vehicle states.  The car rests
\* on the ground at the place it was or at the finish line.  As long as the
\* run has banked nothing (its first attempt) it advances from stop to stop
\* (the fuel cans, the finish line) and it may also lie on its head, stop a
\* little past the finish line or, within RichZonePx of the origin, go back
\* to the previous fuel can.
Stops(L) == { 10 * PX } \cup { L.cans[i].x_px : i \in DOMAIN L.cans } \cup { L.finishX_px }

SetMin(S) == CHOOSE m \in S : \A n \in S : m <= n
SetMax(S) == CHOOSE m \in S : \A n \in S : m >= n

Rich(G) == G.currentLevel = 0 /\ G.totalDistance_m = 0 /\ G.totalCoins = 0

ForwardStops(G) ==
    LET ahead == { s \in Stops(G.level) : s > G.car.x_px }
    IN  IF ahead = {} THEN {}
        ELSE IF ~Rich(G) THEN { G.level.finishX_px }
        ELSE LET nxt == SetMin(ahead)
             IN  IF nxt = G.level.finishX_px
                 THEN { nxt, nxt + OvershootPx * PX }
                 ELSE { nxt }

\* a move back lengthens the way travelled by twice its length; the detour
\* (way travelled minus position reached) is bounded
BackStops(G) ==
    LET behind == { s \in Stops(G.level) : 10 * PX < s /\ s < G.car.x_px }
    IN  IF behind = {} \/ ~Rich(G) \/ G.car.x_px > RichZonePx * PX THEN {}
        ELSE LET prv == SetMax(behind)
             IN  IF G.levelDistance_m - px2m(G.car.x_px) + 2 * px2m(G.car.x_px - prv)
                       <= MaxBackHops * 2 * FUEL_CAN_GAP_M * 1000
                 THEN { prv } ELSE {}

Sparse(G) == G.fuel_out_timer < 0 \/ G.fuel_out_timer % CountdownPeriod = 0

Poses(G, x) ==
    IF Rich(G) /\ (x <= RichZonePx * PX \/ x >= G.level.finishX_px)
    THEN { "ground", "head" } ELSE { "ground" }

PoseAt(V, x, pose, levelIndex, dtDen) ==
    LET gs == sampleGround(x, levelIndex)
        y  == IF pose = "head" THEN gs.y - 20 * PX
              ELSE gs.y - wheelR - bodyH \div 2 - 2 * PX
        a  == IF pose = "head" THEN 3141593 ELSE Atan(gs.slope)
    IN  [ V EXCEPT !.x_px = x, !.y_px = y, !.angle = a,
                   !.vx = 300 * PX, !.vy = 0, !.angV = 0 ]

StepOutcomes(G, dtDen) ==
    IF Sparse(G)
    THEN UNION { { PoseAt(G.car, x, pose, G.currentLevel, dtDen) : pose \in Poses(G, x) } :
                   x \in { G.car.x_px } \cup ForwardStops(G) \cup BackStops(G) }
    ELSE { PoseAt(G.car, G.car.x_px, "ground", G.currentLevel, dtDen) }

\* ------------------------------ Actions ---------------------------------
\* one pass of the fixed-step loop while Playing (lines 977-1027), the
\* stepper's result drawn from StepOutcomes
Tick ==
    /\ windowOpen
    /\ screen = "Playing"
    /\ \E V \in StepOutcomes(Game, DT_DEN) : Becomes(afterStep([ Game EXCEPT !.car = V ]))
    /\ UNCHANGED << hasFont, windowOpen, tickNo >>
    /\ UNCHANGED frame

\* one pass of the fixed-step loop while Playing, stepVehicle as coded
ExactTick ==
    /\ windowOpen
    /\ screen = "Playing"
    /\ tickNo < MaxPhysTicks
    /\ Becomes(fixedStep(Game))
    /\ tickNo' = tickNo + 1
    /\ UNCHANGED << hasFont, windowOpen >>
    /\ UNCHANGED frame

\* an event is taken between two ticks (the loop polls them once a frame);
\* while the fuel-out countdown runs, at every CountdownPeriod-th tick of it
EventNow == windowOpen /\ pc = "events" /\ (screen = "Playing" => Sparse(Game))

Keys == { "Num1", "Num0", "Right", "D", "Left", "A", "R", "BackSpace", "Space" }
DriveKeys == { "Right", "D", "Left", "A" }

\* lines 909-925
keyMenuPlaying(G, code) ==
    IF G.screen = "Menu"
    THEN IF code = "Num1"
         THEN [ resetGame([ G EXCEPT !.currentLevel = 0 ]) EXCEPT !.screen = "Playing" ]
         ELSE IF code = "Num0" THEN [ G EXCEPT !.screen = "Exit" ] ELSE G
    ELSE IF G.screen = "Playing"
         THEN LET R == IF code \in { "Right", "D" }
                       THEN [ G EXCEPT !.car.pressingRight = TRUE ] ELSE G
              IN  IF code \in { "Left", "A" }
                  THEN [ R EXCEPT !.car.pressingLeft = TRUE ] ELSE R
         ELSE G

\* lines 927-948
\* the end-screen keys with Right going on to a level not yet unlocked
keyEndScreensUnlocked(G, code) ==
    IF G.screen \in { "GameOver", "LevelComplete" }
    THEN IF code = "Left"
         THEN LET prev == Max2(G.currentLevel - 1, 0)
              IN  [ buildLevel([ G EXCEPT !.currentLevel = prev ], prev) EXCEPT !.screen = "Playing" ]
         ELSE IF code = "Right"
              THEN LET next == Min2(G.currentLevel + 1, 4)
                   IN  [ buildLevel([ G EXCEPT !.currentLevel = next ], next)
                           EXCEPT !.screen = "Playing" ]
              ELSE IF code = "R"
                   THEN [ buildLevel(G, G.currentLevel) EXCEPT !.screen = "Playing" ]
                   ELSE G
    ELSE G

keyEndScreens(G, code) ==
    IF G.screen \in { "GameOver", "LevelComplete" }
    THEN IF code = "Left"
         THEN LET prev == Max2(G.currentLevel - 1, 0)
              IN  [ buildLevel([ G EXCEPT !.currentLevel = prev ], prev) EXCEPT !.screen = "Playing" ]
         ELSE IF code = "Right"
              THEN LET next == Min2(G.currentLevel + 1, 4)
                   IN  IF next < G.unlockedLevels
                       THEN [ buildLevel([ G EXCEPT !.currentLevel = next ], next)
                                EXCEPT !.screen = "Playing" ]
                       ELSE G
              ELSE IF code = "R"
                   THEN [ buildLevel(G, G.currentLevel) EXCEPT !.screen = "Playing" ]
                   ELSE G
    ELSE G

\* lines 950-953
keyBackspace(G, code) == IF code = "BackSpace" THEN [ G EXCEPT !.screen = "Menu" ] ELSE G

\* sf::Event::KeyPressed (lines 908-954)
keyPressed(G, code) == keyBackspace(keyEndScreens(keyMenuPlaying(G, code), code), code)

\* The driving keys are pressed while the stepper has its full set of results
\* (Rich); a handler that builds a level is taken within the attempts of the
\* run (SpareAttempts).  tickNo counts the ticks of ExactTick in an attempt.
KeyPressed(code) ==
    /\ EventNow
    /\ (screen = "Playing" /\ code \in DriveKeys) => Rich(Game)
    /\ LET G == keyPressed(Game, code)
       IN  /\ G.attempts <= G.unlockedLevels + SpareAttempts
           /\ Becomes(G)
           /\ tickNo' = IF G.attempts # attempts THEN 0 ELSE tickNo
           /\ windowOpen' = IF G.screen = "Exit" THEN FALSE ELSE windowOpen
    /\ UNCHANGED hasFont
    /\ UNCHANGED frame

\* sf::Event::KeyReleased (lines 957-962)
keyReleased(G, code) ==
    IF G.screen = "Playing"
    THEN LET R == IF code \in { "Right", "D" }
                  THEN [ G EXCEPT !.car.pressingRight = FALSE ] ELSE G
         IN  IF code \in { "Left", "A" }
             THEN [ R EXCEPT !.car.pressingLeft = FALSE ] ELSE R
    ELSE G

KeyReleased(code) ==
    /\ EventNow
    /\ Becomes(keyReleased(Game, code))
    /\ UNCHANGED << hasFont, windowOpen, tickNo >>
    /\ UNCHANGED frame

\* what a left click hits: a button of the screen shown, or nothing; and the
\* half of the window it falls in (the Menu without font uses only that)
Targets == { "play", "exit", "leftArrow", "retry", "rightArrow", "menu", "none" }

\* a click is told by the button it hits, except on the Menu drawn without a
\* font, where it is told by the half of the window
Clicks == { << t, TRUE >> : t \in Targets } \cup { << "none", FALSE >> }

\* lines 809-831
clickMenu(G, font, target, upperHalf) ==
    IF font
    THEN IF target = "play" THEN resetGame([ G EXCEPT !.screen = "Playing" ])
         ELSE IF target = "exit" THEN [ G EXCEPT !.screen = "Exit" ] ELSE G
    ELSE IF upperHalf THEN resetGame([ G EXCEPT !.screen = "Playing" ])
         ELSE [ G EXCEPT !.screen = "Exit" ]

\* the end screens' buttons with a Retry that goes back to Playing without
\* building the level
clickEndScreenRetryUnbuilt(G, target) ==
    CASE target = "leftArrow" ->
           [ buildLevel(G, Max2(G.currentLevel - 1, 0)) EXCEPT !.screen = "Playing" ]
      [] target = "retry" -> [ G EXCEPT !.screen = "Playing" ]
      [] target = "rightArrow" ->
           LET next == Min2(G.currentLevel + 1, 4)
           IN  IF next < G.unlockedLevels
               THEN [ buildLevel(G, next) EXCEPT !.screen = "Playing" ] ELSE G
      [] target = "menu" -> [ G EXCEPT !.screen = "Menu" ]
      [] OTHER -> G

\* lines 832-897 (the LevelComplete and the GameOver branch are the same code)
clickEndScreen(G, target) ==
    CASE target = "leftArrow" ->
           [ buildLevel(G, Max2(G.currentLevel - 1, 0)) EXCEPT !.screen = "Playing" ]
      [] target = "retry" ->
           [ buildLevel(G, G.currentLevel) EXCEPT !.screen = "Playing" ]
      [] target = "rightArrow" ->
           LET next == Min2(G.currentLevel + 1, 4)
           IN  IF next < G.unlockedLevels
               THEN [ buildLevel(G, next) EXCEPT !.screen = "Playing" ] ELSE G
      [] target = "menu" -> [ G EXCEPT !.screen = "Menu" ]
      [] OTHER -> G

\* sf::Event::MouseButtonPressed, left button (lines 806-907)
mouseLeft(G, font, target, upperHalf) ==
    IF G.screen = "Menu" THEN clickMenu(G, font, target, upperHalf)
    ELSE IF G.screen \in { "LevelComplete", "GameOver" } /\ font THEN clickEndScreen(G, target)
    ELSE IF G.screen = "GameCompleted" /\ font
         THEN IF target = "menu" THEN [ G EXCEPT !.screen = "Menu" ] ELSE G
         ELSE G

MousePressed(target, upperHalf) ==
    /\ EventNow
    /\ LET G == mouseLeft(Game, hasFont, target, upperHalf)
       IN  /\ G.attempts <= G.unlockedLevels + SpareAttempts
           /\ Becomes(G)
           /\ tickNo' = IF G.attempts # attempts THEN 0 ELSE tickNo
           /\ windowOpen' = IF G.screen = "Exit" THEN FALSE ELSE windowOpen
    /\ UNCHANGED hasFont
    /\ UNCHANGED frame

\* sf::Event::Closed (lines 803-804)
Closed ==
    /\ EventNow
    /\ windowOpen' = FALSE
    /\ UNCHANGED frame
    /\ UNCHANGED << screen, hasFont, unlockedLevels, currentLevel, car, level,
                    fuel_m, lastX_forFuel_px, coinsCollected, levelDistance_m,
                    totalDistance_m, totalCoins, headHitGround, fuel_out_timer,
                    attempts, tickNo >>

Next ==
    \/ Tick
    \/ \E code \in Keys : KeyPressed(code)
    \/ \E code \in DriveKeys : KeyReleased(code)
    \/ \E c \in Clicks : MousePressed(c[1], c[2])
    \/ Closed

Spec == Init /\ [][Next]_vars

\* The stepper as coded, followed from the start of a run through one
\* attempt; the driving keys change only every InputPeriod ticks.
PhysKeys == { "Num1", "Right", "Left" }

PhysNext ==
    \/ ExactTick
    \/ \E code \in PhysKeys :
          /\ screen \in { "Menu", "Playing" }
          /\ tickNo % InputPeriod = 0
          /\ KeyPressed(code)
    \/ \E code \in PhysKeys :
          /\ screen = "Playing"
          /\ tickNo % InputPeriod = 0
          /\ KeyReleased(code)

SpecPhys == Init /\ [][PhysNext]_vars

\* how far the wheel at wp is below the line ground - wheelR (the dy of
\* checkContact and fixWheel)
Depth(wp, levelIndex) == wp.y - (sampleGround(wp.x, levelIndex).y - wheelR)

WheelDepth(V, levelIndex) ==
    Max2(Depth(frontWheelPos(V), levelIndex), Depth(rearWheelPos(V), levelIndex))

\* A tick seen from the state it starts in: the tentative contact test of
\* lines 273-292 on the car after gravity
TentGrounded(V, levelIndex) ==
    onGroundTentative(tempPose(gravity(V, DT_DEN), DT_DEN), levelIndex)

\* the dy of checkContact for the deeper of the two tentative wheels of the
\* tick that starts with the car V
tentWheel(V, lx) ==
    localToWorldTemp(tempPose(gravity(V, DT_DEN), DT_DEN).x,
                     tempPose(gravity(V, DT_DEN), DT_DEN).y,
                     tempPose(gravity(V, DT_DEN), DT_DEN).angle, lx, bodyH \div 2)

TentDepth(V, levelIndex) ==
    Max2(Depth(tentWheel(V, wheelBase \div 2), levelIndex),
         Depth(tentWheel(V, -(wheelBase \div 2)), levelIndex))

\* The stepper as coded, applied for StepTicks ticks to vehicle states drawn
\* around the line on which the wheels touch the ground of level 0: at the
\* places StepXs, lifted or sunk by StepSinks (1/1000 px, positive is down),
\* tilted against the slope by StepTilts, with the velocities StepVxs and
\* StepVys, every combination of held keys, and a full or an empty tank.
StepXs == { 10 * PX, 400 * PX, 1000 * PX }
StepSinks == { -2000, -200, -20, -5, 0, 5, 20, 200, 2000 }
StepTilts == { -300000, 0, 300000 }
StepVxs == { 0, 100 * PX }
StepVys == { -20 * PX, 0, 2 * PX, 20 * PX }
StepFuels == { 0, FUEL_TANK_METERS * 1000 }

StepCars ==
    { [ Vehicle0 EXCEPT
          !.x_px = x,
          !.y_px = sampleGround(x, 0).y - wheelR - bodyH \div 2 + d,
          !.angle = Atan(sampleGround(x, 0).slope) + a,
          !.vx = vx, !.vy = vy, !.angV = 0,
          !.pressingLeft = l, !.pressingRight = r ] :
        x \in StepXs, d \in StepSinks, a \in StepTilts, vx \in StepVxs,
        vy \in StepVys, l \in BOOLEAN, r \in BOOLEAN }

\* the same vehicle states lifted or sunk so that the deeper tentative wheel of
\* the first tick lies exactly on the line ground - wheelR
TouchCars == { [ V EXCEPT !.y_px = V.y_px - TentDepth(V, 0) ] : V \in StepCars }

InitStep ==
    /\ hasFont = TRUE
    /\ windowOpen = TRUE
    /\ tickNo = 0
    /\ accumulator = 0
    /\ clock = 0
    /\ pc = "events"
    /\ car \in StepCars \cup TouchCars
    /\ fuel_m \in StepFuels
    /\ lastX_forFuel_px = car.x_px
    /\ LET G == buildLevel(Game0, 0)
       IN  /\ screen = "Playing"
           /\ unlockedLevels = G.unlockedLevels
           /\ currentLevel = G.currentLevel
           /\ level = G.level
           /\ coinsCollected = G.coinsCollected
           /\ levelDistance_m = G.levelDistance_m
           /\ totalDistance_m = G.totalDistance_m
           /\ totalCoins = G.totalCoins
           /\ headHitGround = G.headHitGround
           /\ fuel_out_timer = G.fuel_out_timer
           /\ attempts = G.attempts

StepNext == tickNo < StepTicks /\ ExactTick

SpecStep == InitStep /\ [][StepNext]_vars

\* ------------------------------ Frames ----------------------------------
\* The body of main()'s loop after the events are polled (lines 965-1040),
\* with the time the clock measures.  Time is counted in TU-ths of DT_FIXED.
\* The stepper's result is drawn from StepOutcomes as in Tick; tickNo counts
\* the passes of the fixed-step loop since the frame's update began.
TU == 2
\* the clock is read before it shows more than MaxClock, and the update is
\* entered while the accumulator stays within MaxAccumulator
MaxClock == 5
MaxAccumulator == 7

FrameTimes == { 1, TU, TU + 1 }
FrameKeys == { "Num1", "R", "BackSpace" }

\* time passes while the loop waits for the frame limit or draws
Elapse(d) ==
    /\ windowOpen
    /\ pc = "events"
    /\ clock + d <= MaxClock
    /\ clock' = clock + d
    /\ UNCHANGED << screen, hasFont, windowOpen, unlockedLevels, currentLevel, car,
                    level, fuel_m, lastX_forFuel_px, coinsCollected, levelDistance_m,
                    totalDistance_m, totalCoins, headHitGround, fuel_out_timer,
                    attempts, tickNo, accumulator, pc >>

\* lines 965-976: on the Menu the frame ends here (continue) and on Exit the
\* loop is left, both before the clock is read; on the other screens the
\* clock is restarted and its time added to the accumulator
FrameBegin ==
    /\ windowOpen
    /\ pc = "events"
    /\ screen \notin { "Menu", "Exit" }
    /\ accumulator + clock <= MaxAccumulator
    /\ accumulator' = accumulator + clock
    /\ clock' = 0
    /\ pc' = "update"
    /\ tickNo' = 0
    /\ UNCHANGED << screen, hasFont, windowOpen, unlockedLevels, currentLevel, car,
                    level, fuel_m, lastX_forFuel_px, coinsCollected, levelDistance_m,
                    totalDistance_m, totalCoins, headHitGround, fuel_out_timer,
                    attempts >>

\* one pass of the fixed-step loop on whatever screen
LoopTickOnAnyScreen ==
    /\ pc = "update"
    /\ accumulator >= TU
    /\ \E V \in StepOutcomes(Game, DT_DEN) : Becomes(afterStep([ Game EXCEPT !.car = V ]))
    /\ accumulator' = accumulator - TU
    /\ tickNo' = tickNo + 1
    /\ UNCHANGED << hasFont, windowOpen, clock, pc >>

\* lines 977-1026: one pass of the fixed-step loop
LoopTick ==
    /\ pc = "update"
    /\ accumulator >= TU
    /\ screen = "Playing"
    /\ \E V \in StepOutcomes(Game, DT_DEN) : Becomes(afterStep([ Game EXCEPT !.car = V ]))
    /\ accumulator' = accumulator - TU
    /\ tickNo' = tickNo + 1
    /\ UNCHANGED << hasFont, windowOpen, clock, pc >>

\* the update left after its first pass, whatever the accumulator holds
FrameEndAfterOneTick ==
    /\ pc = "update"
    /\ tickNo >= 1 \/ ~(accumulator >= TU /\ screen = "Playing")
    /\ pc' = "events"
    /\ UNCHANGED << screen, hasFont, windowOpen, unlockedLevels, currentLevel, car,
                    level, fuel_m, lastX_forFuel_px, coinsCollected, levelDistance_m,
                    totalDistance_m, totalCoins, headHitGround, fuel_out_timer,
                    attempts, tickNo, accumulator, clock >>

\* lines 977-979 and 1027-1071: the loop is left when the accumulator holds
\* less than DT_FIXED or the screen is not Playing; the frame is drawn
FrameEnd ==
    /\ pc = "update"
    /\ ~(accumulator >= TU /\ screen = "Playing")
    /\ pc' = "events"
    /\ UNCHANGED << screen, hasFont, windowOpen, unlockedLevels, currentLevel, car,
                    level, fuel_m, lastX_forFuel_px, coinsCollected, levelDistance_m,
                    totalDistance_m, totalCoins, headHitGround, fuel_out_timer,
                    attempts, tickNo, accumulator, clock >>

FrameNext ==
    \/ \E d \in FrameTimes : Elapse(d)
    \/ FrameBegin
    \/ LoopTick
    \/ FrameEnd
    \/ \E code \in FrameKeys : KeyPressed(code)

SpecFrame == Init /\ [][FrameNext]_vars

\* ------------------------------ Properties ------------------------------
FullTank == FUEL_TANK_METERS * 1000

\* Every handler that sets the screen to Playing has just called buildLevel
\* (the end screens) or resetGame (the Menu), and no other handler calls
\* them: a step starts an attempt iff it enters Playing.
Rebuilt == screen \in { "GameOver", "LevelComplete" } /\ screen' = "Playing"
SameAttempt == ~(screen # "Playing" /\ screen' = "Playing")

TakenCans(L) == { i \in DOMAIN L.cans : L.cans[i].taken }
TakenCoins(L) == { i \in DOMAIN L.coins : L.coins[i].taken }

\* C1: the totals grow by the attempt's distance and coins exactly once, on
\* the tick that ends the attempt (whatever terminal conditions hold on it),
\* and change on no other tick and in no buildLevel call.
C1_TotalsFoldedOnce ==
    [][ /\ Tick =>
             IF screen' # "Playing"
             THEN /\ totalDistance_m' = totalDistance_m + levelDistance_m'
                  /\ totalCoins' = totalCoins + coinsCollected'
             ELSE /\ totalDistance_m' = totalDistance_m
                  /\ totalCoins' = totalCoins
        /\ Rebuilt => /\ totalDistance_m' = totalDistance_m
                      /\ totalCoins' = totalCoins ]_vars

\* the finish line is reached on the tick on which the head hits the ground,
\* in the first attempt of a run: the totals hold the attempt's distance twice
C1_FinishAndCrash ==
    /\ screen = "GameOver"
    /\ headHitGround
    /\ car.x_px >= level.finishX_px
    /\ levelDistance_m > 0
    /\ totalDistance_m = 2 * levelDistance_m

\* C2: a tick that ends with car.x_px >= finishX_px ends the attempt in
\* success: LevelComplete on levels 0..3, GameCompleted on level 4.
C2_FinishIsSuccess ==
    [][ (Tick /\ car'.x_px >= level'.finishX_px) =>
          screen' = IF currentLevel < 4 THEN "LevelComplete" ELSE "GameCompleted" ]_vars

\* the car is exactly on the finish line, the next level is unlocked, and
\* the screen is GameOver
C2_FinishedButGameOver ==
    /\ screen = "GameOver"
    /\ car.x_px = level.finishX_px
    /\ currentLevel = 0
    /\ unlockedLevels = 2

\* C3: every tick checks the head against the ground; the tick that sets
\* headHitGround ends at GameOver; the flag stays set until the next
\* buildLevel; and no tick runs while it is set.
C3_HeadHitIsTerminal ==
    [][ /\ Tick => /\ checkHeadHit([ car |-> car', currentLevel |-> currentLevel' ])
                        => headHitGround'
                   /\ headHitGround' => screen' = "GameOver"
        /\ (headHitGround /\ ~headHitGround') => ~SameAttempt
        /\ headHitGround => ~Tick ]_vars

\* a crash short of the finish line, with fuel left
C3_Crashed ==
    /\ headHitGround
    /\ screen = "GameOver"
    /\ car.x_px < level.finishX_px
    /\ fuel_m > 0

\* C4: the first tick ending with fuel_m <= 0 starts the countdown at 5.0 s
\* (600 ticks), every later such tick takes one tick off it, the tick on which
\* it reaches zero ends at GameOver, and a tick without a crash ends at
\* GameOver at no other time.
C4_GraceCountdown ==
    [][ Tick =>
          /\ (fuel_m' <= 0 /\ fuel_out_timer < 0) => fuel_out_timer' = 5 * DT_DEN
          /\ (fuel_m' <= 0 /\ fuel_out_timer >= 0) => fuel_out_timer' = fuel_out_timer - 1
          /\ (fuel_m' <= 0 /\ fuel_out_timer' = 0) => screen' = "GameOver"
          /\ (screen' = "GameOver" /\ ~headHitGround')
                => (fuel_m' = 0 /\ fuel_out_timer = 1 /\ fuel_out_timer' = 0) ]_vars

\* the countdown ran out: no crash, short of the finish line
C4_TimedOut ==
    /\ screen = "GameOver"
    /\ ~headHitGround
    /\ fuel_m = 0
    /\ fuel_out_timer = 0
    /\ car.x_px < level.finishX_px

\* C5: on a tick on which no fuel can is picked up, fuel_m does not grow, and
\* it is never negative.
C5_FuelMonotone ==
    [][ Tick => /\ fuel_m' >= 0
                /\ TakenCans(level') = TakenCans(level) => fuel_m' <= fuel_m ]_vars

\* a level was finished without a can: more than a tank of distance, and
\* the tank at zero
C5_EmptiedWithoutCan ==
    /\ screen = "LevelComplete"
    /\ TakenCans(level) = {}
    /\ levelDistance_m > FullTank
    /\ fuel_m = 0

\* C6: in every reachable state 0 <= fuel_m <= FUEL_TANK_METERS.
C6_FuelInRange == 0 <= fuel_m /\ fuel_m <= FullTank

\* the tank is empty after a refill earlier in the attempt
C6_EmptyAfterRefill ==
    /\ fuel_m = 0
    /\ TakenCans(level) # {}
    /\ levelDistance_m > FullTank

\* C7: on a tick that brings an untaken can within the pickup radius, the
\* tick ends with a full tank and the can taken; a taken can stays taken
\* within the attempt, and a tick that takes no can refills nothing: it
\* leaves the fuel it had less the distance it added to levelDistance_m.
C7_RefillOncePerCan ==
    [][ /\ Tick =>
             /\ \A i \in DOMAIN level.cans :
                   canHit(level.cans[i], car', frontWheelPos(car'), rearWheelPos(car'),
                          currentLevel)
                     => (fuel_m' = FullTank /\ level'.cans[i].taken)
             /\ TakenCans(level') = TakenCans(level)
                   => fuel_m' = Max2(0, fuel_m - (levelDistance_m' - levelDistance_m))
        /\ SameAttempt => TakenCans(level) \subseteq TakenCans(level') ]_vars

\* the car is back at the first can, taken earlier, and the tank is not full
C7_BackAtTakenCan ==
    /\ screen = "Playing"
    /\ 1 \in TakenCans(level)
    /\ car.x_px = level.cans[1].x_px
    /\ fuel_m < FullTank

\* C8: coinsCollected is the number of coins taken (so it is within
\* 0..COINS_PER_LEVEL), and within an attempt a taken coin stays taken.
C8_CoinsCounted ==
    /\ coinsCollected = Cardinality(TakenCoins(level))
    /\ [][ /\ coinsCollected' = Cardinality(TakenCoins(level'))
           /\ coinsCollected' \in 0..COINS_PER_LEVEL
           /\ SameAttempt => TakenCoins(level) \subseteq TakenCoins(level') ]_vars

\* the car has rested beside a taken coin for half of the countdown
C8_RestingAtCoin ==
    /\ screen = "Playing"
    /\ coinsCollected > 0
    /\ 0 <= fuel_out_timer /\ fuel_out_timer <= CountdownPeriod
    /\ \E i \in TakenCoins(level) : Abs(level.coins[i].x_px - car.x_px) < 28 * PX

\* C9: on every tick, the first of an attempt included, levelDistance_m grows
\* and fuel_m shrinks (down to zero) by the horizontal distance the car moved
\* on that tick, in metres.
C9_FuelByDistanceMoved ==
    [][ ExactTick =>
          LET moved_m == px2m(Abs(car'.x_px - car.x_px))
          IN  /\ levelDistance_m' = levelDistance_m + moved_m
              /\ TakenCans(level') = TakenCans(level)
                    => fuel_m' = Max2(0, fuel_m - moved_m) ]_vars

\* after the first tick of an attempt the car has not moved 1 m and more than
\* 1 m of fuel is gone
C9_FirstTickCharged ==
    /\ tickNo = 1
    /\ Abs(car.x_px - 10 * PX) < PPM * 1000
    /\ levelDistance_m > 1000
    /\ fuel_m < FullTank - 1000

\* C10: on a tick started with fuel_m = 0, stepVehicle leaves the same
\* position, velocity, angle and angular velocity whatever pressingLeft and
\* pressingRight are.
Kinematics(V) == << V.x_px, V.y_px, V.vx, V.vy, V.angle, V.angV >>

C10_NoThrustWithoutFuel ==
    [][ (ExactTick /\ fuel_m = 0) =>
          \A l, r \in BOOLEAN :
             Kinematics(stepVehicle([ Game EXCEPT !.car.pressingLeft = l,
                                                  !.car.pressingRight = r ], DT_DEN).car)
               = Kinematics(car') ]_vars

\* ticks have run on an empty tank with a key held down
C10_KeyHeldOnEmptyTank ==
    /\ screen = "Playing"
    /\ fuel_m = 0
    /\ 0 <= fuel_out_timer /\ fuel_out_timer < 5 * DT_DEN - 10
    /\ car.pressingLeft \/ car.pressingRight

\* lines 320-357: what stepVehicle does after the input forces
settle(V, fuel, levelIndex) ==
    drag(friction(fixRear(fixFront(integrate(V, DT_DEN), levelIndex, DT_DEN),
                          levelIndex, DT_DEN),
                  fuel))

\* torque*dt of the held flags on the angular velocity alone (lines 306, 315)
spin(V) ==
    [ V EXCEPT !.angV = V.angV - (IF V.pressingRight THEN Quot(1800000, DT_DEN) ELSE 0)
                               + (IF V.pressingLeft THEN Quot(1800000, DT_DEN) ELSE 0) ]

\* accel*dt of the held flags along (cos, sin) of the tentative angle
\* (lines 300-305 and 311-314), and nothing on the angular velocity
shove(V) ==
    LET a  == tempPose(V, DT_DEN).angle
        ax == Quot(Quot(300 * PX, DT_DEN) * Cos(Quot(a, 1000)), 1000)
        ay == Quot(Quot(300 * PX, DT_DEN) * Sin(Quot(a, 1000)), 1000)
        k  == (IF V.pressingRight THEN 1 ELSE 0) - (IF V.pressingLeft THEN 1 ELSE 0)
    IN  [ V EXCEPT !.vx = V.vx + k * ax, !.vy = V.vy + k * ay ]

\* C11: on a tick with fuel_m > 0 on which neither wheel is tentatively
\* grounded, the held flags change the angular velocity only (Right takes
\* torque*dt off it, Left adds torque*dt) and add nothing to vx or vy: the
\* tick ends as if the car after gravity had only been spun.
C11_AirborneTorqueOnly ==
    [][ (ExactTick /\ fuel_m > 0 /\ ~TentGrounded(car, currentLevel)) =>
          car' = settle(spin(gravity(car, DT_DEN)), fuel_m, currentLevel) ]_vars

\* the car is clear of the ground with fuel left and Right held, spinning
\* forward
C11_SpinningInAir ==
    /\ screen = "Playing"
    /\ fuel_m > 0
    /\ car.pressingRight /\ ~car.pressingLeft
    /\ car.angV < 0
    /\ tickNo > 1
    /\ ~TentGrounded(car, currentLevel)
    /\ sampleGround(frontWheelPos(car).x, currentLevel).y - wheelR - frontWheelPos(car).y > PX
    /\ sampleGround(rearWheelPos(car).x, currentLevel).y - wheelR - rearWheelPos(car).y > PX

\* C12: on a tick with fuel_m > 0 on which a wheel is tentatively grounded,
\* the held flags push the car by accel*dt along (cos, sin) of the tentative
\* angle and apply no torque: the tick ends as if the car after gravity had
\* only been pushed.
C12_GroundedThrustNoTorque ==
    [][ (ExactTick /\ fuel_m > 0 /\ TentGrounded(car, currentLevel)) =>
          car' = settle(shove(gravity(car, DT_DEN)), fuel_m, currentLevel) ]_vars

\* after the first tick of an attempt, begun at rest on the ground with
\* Right held, the car turns forward
C12_TorqueOnTheGround ==
    /\ tickNo = 1
    /\ car.pressingRight /\ ~car.pressingLeft
    /\ car.vx > 0
    /\ car.angV < 0

\* C13: a tick runs gravity, the tentative-contact test, the thrust, the
\* integration, the penetration resolution of the front and then the rear
\* wheel, friction and drag, and then the tracker: fuel consumption, can
\* pickup, coin pickup, head check, fuel countdown, finish check, game-over
\* check.  The thrust is decided by the contact of the pose computed from the
\* car after gravity and before integration; the friction by the wheels the
\* penetration resolution of this tick counted.
Fallen == gravity(car, DT_DEN)
Thrusted ==
    thrust(Fallen, fuel_m, onGroundTentative(tempPose(Fallen, DT_DEN), currentLevel),
           tempPose(Fallen, DT_DEN).angle, DT_DEN)
Resolved == fixRear(fixFront(integrate(Thrusted, DT_DEN), currentLevel, DT_DEN),
                    currentLevel, DT_DEN)
Stepped == [ Game EXCEPT !.car = drag(friction(Resolved, fuel_m)) ]
Tracked == pickCoins(pickCans(consumeFuel(Stepped)))

C13_TickOrder ==
    [][ ExactTick =>
          Game' = gameOver(finishLine(fuelCheck(headCheck(Tracked)))) ]_vars

\* an attempt driven to the finish line: thrust on the ground, flights,
\* landings, cans and coins picked up, and the finish check on the last tick
C13_DrivenToTheFinish ==
    /\ screen = "LevelComplete"
    /\ tickNo > InputPeriod
    /\ car.pressingRight
    /\ coinsCollected > 0
    /\ TakenCans(level) # {}
    /\ car.x_px >= level.finishX_px

\* C14: the update of a frame starts from the accumulator plus the time the
\* clock measured with no pass counted; every pass of its loop runs the
\* stepper and the tracker once and takes DT_FIXED off the accumulator; and
\* an update that ends with the screen at Playing leaves
\* 0 <= accumulator < DT_FIXED.  So a frame that stays on Playing runs one
\* pass for every whole DT_FIXED it started with.
C14_WholeTicksPerFrame ==
    [][ /\ (pc = "events" /\ pc' = "update")
              => (tickNo' = 0 /\ accumulator' = accumulator + clock)
        /\ (pc = "update" /\ pc' = "update")
              => /\ LoopTick
                 /\ accumulator >= TU
                 /\ accumulator' = accumulator - TU
                 /\ tickNo' = tickNo + 1
        /\ (pc = "update" /\ pc' = "events")
              => /\ accumulator' = accumulator /\ tickNo' = tickNo
                 /\ screen' = "Playing" => (0 <= accumulator' /\ accumulator' < TU) ]_vars

\* a frame that began with two and a half DT_FIXED has run two passes and
\* ended on Playing with the half left
C14_TwoTicksAndAHalf ==
    /\ pc = "events"
    /\ screen = "Playing"
    /\ tickNo = 2
    /\ accumulator = 1
    /\ clock = 0

\* the attempt state: what buildLevel is to reset (attempts, the count of the
\* calls, is no member of Game)
AttemptState(G) ==
    [ currentLevel |-> G.currentLevel, level |-> G.level, car |-> G.car,
      fuel_m |-> G.fuel_m, lastX_forFuel_px |-> G.lastX_forFuel_px,
      levelDistance_m |-> G.levelDistance_m, coinsCollected |-> G.coinsCollected,
      headHitGround |-> G.headHitGround, fuel_out_timer |-> G.fuel_out_timer ]

\* the state of a fresh attempt at level idx, field by field
FreshAttempt(G, idx) ==
    /\ G.fuel_m = FullTank
    /\ G.levelDistance_m = 0
    /\ G.coinsCollected = 0
    /\ G.headHitGround = FALSE
    /\ G.fuel_out_timer = -DT_DEN
    /\ G.car.x_px = 10 * PX
    /\ G.car.y_px = sampleGround(0, idx).y - wheelR - bodyH \div 2 - 2 * PX
    /\ G.car.vx = 0 /\ G.car.vy = 0 /\ G.car.angV = 0
    /\ G.car.angle = 20000
    /\ ~G.car.pressingLeft /\ ~G.car.pressingRight
    /\ Len(G.level.coins) = COINS_PER_LEVEL
    /\ \A k \in DOMAIN G.level.coins : ~G.level.coins[k].taken
    /\ \A k \in DOMAIN G.level.cans : ~G.level.cans[k].taken
    /\ G.level.finishX_px = m2px(LEVEL_METERS[idx + 1] * 1000)
    /\ G.currentLevel = idx

\* the attempt state buildLevel(idx) yields from the constructed Game
FirstBuilt == [ idx \in 0..(NUM_LEVELS - 1) |-> AttemptState(buildLevel(Game0, idx)) ]

\* C15: in every reachable state and for every idx in 0..4, buildLevel(idx)
\* yields the fresh attempt state of level idx (full tank, no distance, no
\* coins, no head hit, timer at -1 s, the car at the start at rest with angle
\* 0.02 and no key held, COINS_PER_LEVEL coins, nothing taken, the finish at
\* the level's length); the result is the one the call yields from the
\* constructed Game, and a second call changes nothing of it.
C15_BuildLevelResets ==
    \A idx \in 0..(NUM_LEVELS - 1) :
       \A B \in { buildLevel(Game, idx) } :
          /\ FreshAttempt(B, idx)
          /\ AttemptState(B) = FirstBuilt[idx]
          /\ AttemptState(buildLevel(B, idx)) = AttemptState(B)

\* a level was rebuilt after an attempt that banked distance and coins: the
\* attempt state is fresh while the totals show the attempt before
C15_RebuiltAfterAnAttempt ==
    /\ screen = "Playing"
    /\ attempts >= 2
    /\ totalCoins > 0 /\ totalDistance_m > 0
    /\ FreshAttempt(Game, currentLevel)

\* C16: in every reachable state 0 <= currentLevel < unlockedLevels <= 5 and
\* the level built is the one buildLevel was last called with, so every call
\* of buildLevel had an index in 0..4 and no locked level is played.
C16_LevelIndexInRange ==
    /\ 0 <= currentLevel
    /\ currentLevel < unlockedLevels
    /\ unlockedLevels <= NUM_LEVELS
    /\ level.index = currentLevel
    /\ level.length_m = LEVEL_METERS[currentLevel + 1] * 1000

\* every level has been unlocked in turn and the last one is being played
C16_PlayingTheLastLevel ==
    /\ screen = "Playing"
    /\ currentLevel = NUM_LEVELS - 1
    /\ unlockedLevels = NUM_LEVELS
    /\ level.index = NUM_LEVELS - 1

\* C17: unlockedLevels rises only on a tick that ends at LevelComplete, then
\* by one to currentLevel + 2 and from currentLevel = unlockedLevels - 1; a
\* tick that ends at GameOver leaves it unchanged; and it falls only in
\* resetGame (Num1 or the Start button on the Menu).
C17_UnlockedByBeatingALevel ==
    [][ /\ unlockedLevels' > unlockedLevels
              => /\ Tick
                 /\ screen' = "LevelComplete"
                 /\ currentLevel = unlockedLevels - 1
                 /\ unlockedLevels' = unlockedLevels + 1
                 /\ unlockedLevels' = currentLevel + 2
        /\ (Tick /\ screen' = "GameOver") => unlockedLevels' = unlockedLevels
        /\ unlockedLevels' < unlockedLevels
              => (screen = "Menu" /\ screen' = "Playing" /\ unlockedLevels' = 1) ]_vars

\* the first attempt of a run was lost by a crash and level 1 is unlocked
C17_UnlockedByALostAttempt ==
    /\ screen = "GameOver"
    /\ headHitGround
    /\ attempts = 1
    /\ currentLevel = 0
    /\ unlockedLevels = 2

\* C18: after a tick on which a wheel of the tentative pose was below the
\* line ground - wheelR, both committed wheels are on or above that line at
\* their own x.  Half a pixel is allowed for the arithmetic in 1/1000.
C18_WheelsOnTheLine ==
    [][ (ExactTick /\ TentGrounded(car, currentLevel)) =>
          WheelDepth(car', currentLevel) <= PX \div 2 ]_vars

\* ticks have run and a committed wheel is more than a pixel below the line
C18_WheelInTheGround ==
    /\ tickNo > 0
    /\ ~headHitGround
    /\ WheelDepth(car, currentLevel) > PX

\* C19: after a tick on which a wheel of the tentative pose was below the
\* line ground - wheelR, the car does not move downward (vy <= 0), with and
\* without thrust.  Half a pixel per second is allowed for the arithmetic in
\* 1/1000.
C19_NotFallingAfterContact ==
    [][ (ExactTick /\ TentGrounded(car, currentLevel)) => car'.vy <= PX \div 2 ]_vars

\* ticks have run with a key held, and the car moves downward by more than a
\* pixel per second with both wheels within a pixel above the line
C19_FallingAtTheLine ==
    /\ tickNo > 0
    /\ screen = "Playing"
    /\ car.pressingLeft \/ car.pressingRight
    /\ car.vy > PX
    /\ -PX < Depth(frontWheelPos(car), currentLevel)
    /\ -PX < Depth(rearWheelPos(car), currentLevel)

\* C20: on the Menu, key 1 starts a fresh run (level 0 built, one level
\* unlocked, the totals at zero) on the Playing screen, and key 0 sets the
\* Exit screen and ends the main loop: no event is handled and no tick runs
\* once the window is closed.  Backspace sets the Menu screen on whatever
\* screen it is pressed.
C20_MenuKeys ==
    [][ /\ (screen = "Menu" /\ KeyPressed("Num1"))
              => /\ screen' = "Playing"
                 /\ unlockedLevels' = 1
                 /\ totalDistance_m' = 0 /\ totalCoins' = 0
                 /\ level'.index = 0
                 /\ FreshAttempt(Game', 0)
        /\ (screen = "Menu" /\ KeyPressed("Num0"))
              => (screen' = "Exit" /\ ~windowOpen')
        /\ KeyPressed("BackSpace") => screen' = "Menu"
        /\ screen' = "Exit" => ~windowOpen'
        /\ windowOpen ]_vars

\* the game was left from the Menu after a run that unlocked a level and
\* banked distance: Backspace had brought it back to the Menu
C20_LeftAfterARun ==
    /\ screen = "Exit"
    /\ ~windowOpen
    /\ unlockedLevels > 1
    /\ totalDistance_m > 0

\* C21: the level built has the length 100 m * (index + 1), that is 100 m,
\* 200 m, 300 m, 400 m and 500 m for the five levels, and its finish line lies
\* at that length in pixels.
C21_LevelLengths ==
    /\ level.length_m = 100 * (level.index + 1) * 1000
    /\ level.finishX_px = m2px(level.length_m)
    /\ level.finishX_px = m2px(100 * (level.index + 1) * 1000)

\* the last level is played: it is 1100 m long and its finish line is at
\* 8800 px
C21_LastLevelBuilt ==
    /\ screen = "Playing"
    /\ level.index = NUM_LEVELS - 1
    /\ level.length_m = 1100 * 1000
    /\ level.finishX_px = 8800 * PX

\* the stretches a car that only moves forward covers on a tank: from the
\* origin, from which the first tick counts the distance (line 231), to the
\* first can, from can to can, and from the last can to the finish line
Stretches(L) ==
    { L.cans[1].x_px } \cup
    { L.cans[k + 1].x_px - L.cans[k].x_px : k \in 1..(Len(L.cans) - 1) } \cup
    { L.finishX_px - L.cans[Len(L.cans)].x_px }

Completable(L) ==
    /\ Len(L.cans) >= 1
    /\ \A k \in DOMAIN L.cans : L.cans[k].x_px < L.finishX_px
    /\ \A d \in Stretches(L) : 0 < d /\ d < m2px(FUEL_TANK_METERS * 1000)

\* C22: on every level built, the first can, each next can and the finish
\* line lie less than a full tank after the place the tank was last full, and
\* every can lies before the finish line; so a tick that reaches the finish
\* line after forward travel only (the distance driven is the position
\* reached) with every can taken ends with fuel_m > 0.
C22_CompletableOnATank ==
    /\ Completable(level)
    /\ [][ /\ Completable(level')
           /\ ( /\ Tick
                /\ car'.x_px >= level'.finishX_px
                /\ TakenCans(level') = DOMAIN level'.cans
                /\ levelDistance_m' = px2m(car'.x_px) )
              => fuel_m' > 0 ]_vars

\* a level finished by forward travel with every can taken and fuel left
C22_FinishedWithFuelLeft ==
    /\ screen = "LevelComplete"
    /\ TakenCans(level) = DOMAIN level.cans
    /\ levelDistance_m = px2m(car.x_px)
    /\ 0 < fuel_m /\ fuel_m < FullTank

\* C23: a wheel whose tentative y is exactly ground - wheelR counts as
\* tentatively grounded: on a tick with fuel on which the deeper tentative
\* wheel lies exactly on the line, the held keys push the car along the
\* tentative angle as they do on the ground.
C23_TouchingIsGrounded ==
    [][ (ExactTick /\ fuel_m > 0 /\ TentDepth(car, currentLevel) = 0) =>
          car' = settle(thrust(gravity(car, DT_DEN), fuel_m, TRUE,
                               tempPose(gravity(car, DT_DEN), DT_DEN).angle, DT_DEN),
                        fuel_m, currentLevel) ]_vars

\* a tick is about to start with fuel, Right held, and the deeper tentative
\* wheel exactly on the line
C23_WheelExactlyOnTheLine ==
    /\ screen = "Playing"
    /\ tickNo = 0
    /\ fuel_m > 0
    /\ car.pressingRight /\ ~car.pressingLeft
    /\ TentDepth(car, currentLevel) = 0
    /\ ~TentGrounded(car, currentLevel)

\* the car of the tick in progress after the integration (lines 320-322) and
\* after fixWheel on the front wheel (line 346)
Integrated == integrate(Thrusted, DT_DEN)
FrontFixed == fixFront(Integrated, currentLevel, DT_DEN)

\* the turn from the angle before to the angle after is the turn towards the
\* slope under the wheel at wp: the difference to the slope's angle, taken
\* within half a turn (the code's turn is 6.28318), and of that at most
\* alignRate = 4.5 * dt.  A difference of exactly half a turn may be taken
\* either way.
ShortWay(before, after, wp) ==
    LET targetAngle == Atan(sampleGround(wp.x, currentLevel).slope)
        alignRate   == Quot(4500000, DT_DEN)
        da          == ((targetAngle - before + 3141590) % 6283180) - 3141590
    IN  /\ Abs(after - before) <= alignRate
        /\ Abs(after - before) <= Abs(da)
        /\ \/ after - before = clampf(da, -alignRate, alignRate)
           \/ da = -3141590 /\ after - before = alignRate

Outcome ==
    << car, fuel_m, lastX_forFuel_px, levelDistance_m, coinsCollected, level,
       fuel_out_timer, headHitGround, totalDistance_m, totalCoins >>

\* C25: on a screen other than Playing no pass of the fixed-step loop runs,
\* however much time the accumulator holds, and what the attempt left behind
\* stays as it is until a handler builds a level and sets the screen to
\* Playing; a level is built only while events are polled, never between the
\* passes of an update.
C25_FrozenOffPlaying ==
    [][ /\ screen # "Playing" => /\ ~LoopTick
                                 /\ tickNo' = tickNo \/ tickNo' = 0
                                 /\ screen' # "Playing" => Outcome' = Outcome
        /\ (screen # "Playing" /\ screen' = "Playing")
              => (pc = "events" /\ pc' = "events")
        /\ pc = "update" => (level'.index = level.index /\ attempts' = attempts) ]_vars

\* frames have passed on the GameOver screen: the accumulator holds more than
\* two DT_FIXED and the car lies where it crashed
C25_TimePiledUpOnGameOver ==
    /\ screen = "GameOver"
    /\ headHitGround
    /\ pc = "events"
    /\ accumulator > 2 * TU
    /\ totalDistance_m = levelDistance_m

\* C26: time that passes on the Menu and on the end screens is not
\* simulated.  The first update after the screen returns to Playing runs one
\* pass for every DT_FIXED the accumulator and the clock hold between them
\* (C14), so at the return they hold less than one DT_FIXED: the residue of
\* the last update, and nothing of the time spent on the other screen.
C26_NoTimeCarriedIntoPlaying ==
    [][ (screen # "Playing" /\ screen' = "Playing") => accumulator' + clock' < TU ]_vars

\* an attempt is about to start its first update with more than two DT_FIXED
\* in the accumulator, all of it added on an end screen
C26_BacklogAtTheStart ==
    /\ screen = "Playing"
    /\ pc = "events"
    /\ FreshAttempt(Game, currentLevel)
    /\ lastX_forFuel_px = 0
    /\ accumulator >= 2 * TU

\* C27: a tick that takes a can ends with a full tank and the countdown off
\* (-1 s), also when the countdown was running; a tick that ends with fuel
\* ends with the countdown off and ends at GameOver only by a crash; a tick
\* that ends without fuel while the countdown is off starts it at 5 s; and
\* fuel_out_timer is -1 s or lies in (-1 s, 5 s] in every state.
TimerInRange ==
    \/ fuel_out_timer = -DT_DEN
    \/ -DT_DEN < fuel_out_timer /\ fuel_out_timer <= 5 * DT_DEN

C28_PlayingStartsFresh ==
    [][ (screen # "Playing" /\ screen' = "Playing")
           => /\ FreshAttempt(Game', currentLevel')
              /\ lastX_forFuel_px' = 0
              /\ AttemptState(Game') = FirstBuilt[currentLevel'] ]_vars

\* a fresh attempt at the second level: the level before was driven to its
\* finish with the right key held, and nothing of that attempt is left
C28_FreshAfterADrive ==
    /\ screen = "Playing"
    /\ currentLevel = 1
    /\ tickNo = 0
    /\ totalDistance_m > 0
    /\ lastX_forFuel_px = 0
    /\ FreshAttempt(Game, currentLevel)

\* C29: in every state in which no can of the level built has been taken and
\* fuel_m > 0, fuel_m + levelDistance_m = FUEL_TANK_METERS; and no step within
\* an attempt decreases levelDistance_m.
C29_FuelAgainstDistance ==
    /\ (TakenCans(level) = {} /\ fuel_m > 0) => fuel_m + levelDistance_m = FullTank
    /\ [][ /\ (TakenCans(level') = {} /\ fuel_m' > 0)
                 => fuel_m' + levelDistance_m' = FullTank
           /\ SameAttempt => levelDistance_m' >= levelDistance_m ]_vars

\* the car went forward and came back without a can: the distance paid for
\* is more than the car's position, and what is left of the tank is the rest
C29_DroveBackAndForth ==
    /\ screen = "Playing"
    /\ TakenCans(level) = {}
    /\ fuel_m > 0
    /\ levelDistance_m > px2m(car.x_px) + 1000
    /\ levelDistance_m > 2 * 1250
    /\ fuel_m = FullTank - levelDistance_m

\* C30: a tick that starts with vx = 0 and neither input flag set ends with
\* vx = 0 and car.x_px where it was, whatever the ground under the wheels; it
\* consumes fuel only if it is the attempt's first tick (the fuel reference
\* still at 0, the cost 1.25 m), and it does not end the level as complete.
\* An attempt starts with vx = 0, so one in which no flag is ever set stays
\* at its start.
C30_NoInputNoTravel ==
    [][ (ExactTick /\ car.vx = 0 /\ ~car.pressingLeft /\ ~car.pressingRight)
           => /\ car'.vx = 0
              /\ car'.x_px = car.x_px
              /\ lastX_forFuel_px = car.x_px
                    => (fuel_m' = fuel_m /\ levelDistance_m' = levelDistance_m)
              /\ lastX_forFuel_px # car.x_px
                    => fuel_m' = Max2(0, fuel_m - px2m(Abs(car.x_px - lastX_forFuel_px)))
              /\ car.x_px < level.finishX_px
                    => screen' \notin { "LevelComplete", "GameCompleted" } ]_vars

\* the whole run of ticks without a key: the car is at rest on the ground at
\* the start line, the tank short of the first tick's 1.25 m only
C30_StillAtTheStart ==
    /\ screen = "Playing"
    /\ tickNo = MaxPhysTicks
    /\ car.x_px = 10 * PX
    /\ car.vx = 0
    /\ ~car.pressingLeft /\ ~car.pressingRight
    /\ WheelDepth(car, currentLevel) > -2 * PX
    /\ fuel_m = FullTank - 1250
    /\ levelDistance_m = 1250

====
